---- MODULE Spec2Model ----
(***************************************************************************)
(* Model of src/prep_data.py: the census data preparation pipeline         *)
(*   select_features -> create_treatment -> cost sign flip -> encode ->    *)
(*   split -> export                                                       *)
(* and of each of its stages taken alone.                                  *)
(*                                                                         *)
(* A DataFrame is a record                                                 *)
(*   [columns |-> sequence of column names,                                *)
(*    index   |-> sequence of row labels (the identity of a row),          *)
(*    values  |-> sequence of rows, each a sequence of cells aligned with  *)
(*                columns].                                                *)
(* A column name is a tuple: <<"cost">> is the column "cost", and          *)
(* <<"cat1", 2>> is the indicator column "cat1_2" that get_dummies makes   *)
(* for value 2 of column "cat1".  Cells are integers; NaN marks a missing  *)
(* cell of a categorical column.                                           *)
(*                                                                         *)
(* An operation that can raise returns [err |-> "none", val |-> result]    *)
(* or [err |-> the exception's name, val |-> NoValue].                     *)
(***************************************************************************)
EXTENDS Integers, Sequences, FiniteSets

VARIABLES
    pc,           \* position of main(), or of the stage under study
    cfg,          \* cfg.features: the column selection spec
    df,           \* the raw dataset read by main()
    filtered_df,  \* main()'s filtered_df (mutated in place by main)
    encoded_df,   \* main()'s encoded_df
    parts,        \* <<train_df, valid_df, test_df>>
    failed_at,    \* the stage whose exception ended main(), or "none"
    arg,          \* the argument of the stage under study
    ret           \* what the stage under study returned

vars == <<pc, cfg, df, filtered_df, encoded_df, parts, failed_at, arg, ret>>

(***************************************************************************)
(* Bounds of the model.                                                    *)
(***************************************************************************)
MaxSelRows == 3
MaxLen == 5
MaxHourVal == 5
MaxEncRows == 3
MaxSplitRows == 8
MaxPerClass == 4
MaxBinCount == 47
MaxClasses == 6
MaxClassCount == 7
MaxPipeRows == 8
MaxLowRows == 3
MaxMidRows == 1
MaxHighRows == 4
MaxIneligibleRows == 1

(***************************************************************************)
(* Generic helpers.                                                        *)
(***************************************************************************)
NaN == -1

NoValue == <<>>

EmptyFrame == [columns |-> <<>>, index |-> <<>>, values |-> <<>>]

Ok(v) == [err |-> "none", val |-> v]

Raise(e) == [err |-> e, val |-> NoValue]

Range(s) == {s[i] : i \in 1..Len(s)}

RECURSIVE SeqSum(_)
SeqSum(s) == IF Len(s) = 0 THEN 0 ELSE s[1] + SeqSum(Tail(s))

\* every sequence over S of length at most n
SeqsUpTo(S, n) == UNION {[1..k -> S] : k \in 0..n}

\* the positions i of mask with mask[i] true, ascending (boolean indexing)
RECURSIVE KeptPositions(_, _)
KeptPositions(mask, i) ==
    IF i > Len(mask) THEN <<>>
    ELSE IF mask[i] THEN <<i>> \o KeptPositions(mask, i + 1)
    ELSE KeptPositions(mask, i + 1)

NRows(frame) == Len(frame.index)

HasCol(frame, c) == \E k \in 1..Len(frame.columns) : frame.columns[k] = c

ColIndex(frame, c) == CHOOSE k \in 1..Len(frame.columns) : frame.columns[k] = c

\* frame[c]: one column as a sequence
Column(frame, c) ==
    [i \in 1..NRows(frame) |-> frame.values[i][ColIndex(frame, c)]]

\* frame.iloc[:, pos]: the columns at the given positions, in that order
TakePositions(frame, pos) ==
    [columns |-> [k \in 1..Len(pos) |-> frame.columns[pos[k]]],
     index   |-> frame.index,
     values  |-> [i \in 1..NRows(frame) |->
                    [k \in 1..Len(pos) |-> frame.values[i][pos[k]]]]]

\* the positions of the columns of frame labelled c, ascending
RECURSIVE Labelled(_, _, _)
Labelled(frame, c, k) ==
    IF k > Len(frame.columns) THEN <<>>
    ELSE IF frame.columns[k] = c THEN <<k>> \o Labelled(frame, c, k + 1)
    ELSE Labelled(frame, c, k + 1)

\* the concatenation of a sequence of sequences
RECURSIVE Flatten(_)
Flatten(ss) == IF Len(ss) = 0 THEN <<>> ELSE ss[1] \o Flatten(Tail(ss))

\* the positions frame[cols] selects: for each label of the list in turn,
\* every column of frame with that label
Selected(frame, cols) ==
    Flatten([k \in 1..Len(cols) |-> Labelled(frame, cols[k], 1)])

\* frame[cols]: projection to a list of column labels, in the list's order
TakeColumns(frame, cols) == TakePositions(frame, Selected(frame, cols))

\* frame.iloc[pos]: the rows at the given positions, in that order
TakeRows(frame, pos) ==
    [columns |-> frame.columns,
     index   |-> [j \in 1..Len(pos) |-> frame.index[pos[j]]],
     values  |-> [j \in 1..Len(pos) |-> frame.values[pos[j]]]]

\* frame[c] = vals: overwrite one column
SetColumn(frame, c, vals) ==
    [frame EXCEPT !.values =
        [i \in 1..NRows(frame) |->
            [k \in 1..Len(frame.columns) |->
                IF k = ColIndex(frame, c) THEN vals[i] ELSE frame.values[i][k]]]]

(***************************************************************************)
(* select_features                                                         *)
(***************************************************************************)
required_cols(feature_cfg) ==
    <<feature_cfg.hour_col, feature_cfg.gain_col, feature_cfg.cost_col>>
        \o feature_cfg.binary_cols \o feature_cfg.categorical_cols

\* the eligibility mask of lines 93-95
eligible(frame, feature_cfg) ==
    [i \in 1..NRows(frame) |->
        /\ Column(frame, feature_cfg.age_col)[i] < 5
        /\ Column(frame, feature_cfg.citizen_col)[i] = 0
        /\ Column(frame, feature_cfg.cost_col)[i] >= 2]

\* a mutant: a missing column is skipped instead of raising KeyError
select_features_lenient(frame, feature_cfg) ==
    LET have == SelectSeq(required_cols(feature_cfg), LAMBDA c : HasCol(frame, c))
        mask == [i \in 1..NRows(frame) |->
                    /\ (HasCol(frame, feature_cfg.age_col)
                            => Column(frame, feature_cfg.age_col)[i] < 5)
                    /\ (HasCol(frame, feature_cfg.citizen_col)
                            => Column(frame, feature_cfg.citizen_col)[i] = 0)
                    /\ (HasCol(frame, feature_cfg.cost_col)
                            => Column(frame, feature_cfg.cost_col)[i] >= 2)]
    IN  Ok(TakeColumns(TakeRows(frame, KeptPositions(mask, 1)), have))

\* a mutant: the cost criterion is strict (cost > 2)
select_features_strict_cost(frame, feature_cfg) ==
    LET mask == [i \in 1..NRows(frame) |->
                    /\ Column(frame, feature_cfg.age_col)[i] < 5
                    /\ Column(frame, feature_cfg.citizen_col)[i] = 0
                    /\ Column(frame, feature_cfg.cost_col)[i] > 2]
    IN  Ok(TakeColumns(TakeRows(frame, KeptPositions(mask, 1)),
                       required_cols(feature_cfg)))

select_features(frame, feature_cfg) ==
    IF \/ ~HasCol(frame, feature_cfg.age_col)
       \/ ~HasCol(frame, feature_cfg.citizen_col)
       \/ ~HasCol(frame, feature_cfg.cost_col)
       \/ \E c \in Range(required_cols(feature_cfg)) : ~HasCol(frame, c)
    THEN Raise("KeyError")
    ELSE Ok(TakeColumns(TakeRows(frame, KeptPositions(eligible(frame, feature_cfg), 1)),
                        required_cols(feature_cfg)))

(***************************************************************************)
(* The stage select_features alone: applied to a raw dataset, then applied *)
(* again to its own output.                                                *)
(***************************************************************************)
RawColumns ==
    <<<<"age">>, <<"citizen">>, <<"cost">>, <<"hour">>, <<"gain">>,
      <<"bin">>, <<"cat1">>, <<"other">>>>

\* the configuration of the pipeline
BaseCfg ==
    [age_col |-> <<"age">>, citizen_col |-> <<"citizen">>, cost_col |-> <<"cost">>,
     hour_col |-> <<"hour">>, gain_col |-> <<"gain">>,
     binary_cols |-> <<<<"bin">>>>, categorical_cols |-> <<<<"cat1">>>>]

\* configurations that differ in whether the age and citizen-status columns
\* are themselves among the selected features
SelCfgs ==
    {BaseCfg,
     [BaseCfg EXCEPT !.binary_cols = <<<<"bin">>, <<"age">>>>],
     [BaseCfg EXCEPT !.binary_cols = <<<<"bin">>, <<"age">>, <<"citizen">>>>]}

\* raw rows around the thresholds of the eligibility criteria
SelRows ==
    {<<age, citizen, cost, hour, 7, 1, 2, 9>> :
        age \in {4, 5}, citizen \in {0, 1}, cost \in {1, 2}, hour \in {10, 20}}

MakeFrame(columns, rows) ==
    [columns |-> columns, index |-> [i \in 1..Len(rows) |-> i - 1], values |-> rows]

InitIdle ==
    /\ df = EmptyFrame
    /\ filtered_df = EmptyFrame
    /\ encoded_df = EmptyFrame
    /\ parts = NoValue
    /\ failed_at = "none"

InitSelect ==
    /\ pc = "select"
    /\ cfg \in SelCfgs
    /\ arg \in {MakeFrame(RawColumns, rows) : rows \in SeqsUpTo(SelRows, MaxSelRows)}
    /\ ret = NoValue
    /\ InitIdle

\* first application
SelectOnce ==
    /\ pc = "select"
    /\ ret' = <<select_features(arg, cfg)>>
    /\ pc' = "selected"
    /\ UNCHANGED <<cfg, df, filtered_df, encoded_df, parts, failed_at, arg>>

\* second application, to the output of the first
SelectAgain ==
    /\ pc = "selected"
    /\ ret[1].err = "none"
    /\ ret' = ret \o <<select_features(ret[1].val, cfg)>>
    /\ pc' = "reselected"
    /\ UNCHANGED <<cfg, df, filtered_df, encoded_df, parts, failed_at, arg>>

NextSelect == SelectOnce \/ SelectAgain

SelectSpec == InitSelect /\ [][NextSelect]_vars

\* the cell of raw row i in the raw column called name
RawCell(i, name) ==
    arg.values[i][CHOOSE k \in 1..Len(RawColumns) : RawColumns[k] = name]

\* C1: select_features returns normally (also with zero rows) exactly the
\* input rows with age < 5, citizen-status = 0 and cost >= 2, each once,
\* projected to hour, gain, cost, the binary columns, the categorical columns.
C1_SelectsEligibleRows ==
    pc \in {"selected", "reselected"} =>
        LET out == ret[1]
            want == <<cfg.hour_col, cfg.gain_col, cfg.cost_col>>
                        \o cfg.binary_cols \o cfg.categorical_cols
        IN  /\ out.err = "none"
            /\ out.val.columns = want
            /\ Len(out.val.values) = Len(out.val.index)
            /\ Cardinality(Range(out.val.index)) = Len(out.val.index)
            /\ \A i \in 1..Len(arg.index) :
                   (arg.index[i] \in Range(out.val.index))
                       <=> /\ RawCell(i, <<"age">>) < 5
                           /\ RawCell(i, <<"citizen">>) = 0
                           /\ RawCell(i, <<"cost">>) >= 2
            /\ \A j \in 1..Len(out.val.index) :
                   \E i \in 1..Len(arg.index) :
                       /\ arg.index[i] = out.val.index[j]
                       /\ Len(out.val.values[j]) = Len(want)
                       /\ \A k \in 1..Len(want) :
                              out.val.values[j][k] = RawCell(i, want[k])

\* some rows are kept, some are dropped, and a cost of exactly 2 is kept
C1_Witness ==
    /\ pc = "selected"
    /\ ret[1].err = "none"
    /\ Len(ret[1].val.index) > 0
    /\ Len(ret[1].val.index) < Len(arg.index)
    /\ \E j \in 1..Len(ret[1].val.index) : ret[1].val.values[j][3] = 2

\* C1, the zero-row result: it is a normal return
C1_WitnessEmpty ==
    /\ pc = "selected"
    /\ Len(arg.index) > 0
    /\ ret[1] = Ok([columns |-> required_cols(cfg), index |-> <<>>, values |-> <<>>])

\* C6 as stated: the second application succeeds and returns the output of
\* the first.
C6_AsStated ==
    pc = "reselected" => /\ ret[2].err = "none"
                         /\ ret[2].val = ret[1].val

\* C6 amended: the second application returns the output of the first when
\* the age and citizen-status columns are among the selected columns, and
\* fails with KeyError (a missing column) when one of them is not.
C6_IdempotentWhenCriteriaKept ==
    pc = "reselected" =>
        IF {cfg.age_col, cfg.citizen_col} \subseteq Range(ret[1].val.columns)
        THEN ret[2].err = "none" /\ ret[2].val = ret[1].val
        ELSE ret[2].err = "KeyError"

\* both branches: a second application that returns a filtered dataset ...
C6_Witness ==
    /\ pc = "reselected"
    /\ ret[2].err = "none"
    /\ Len(ret[2].val.index) > 0
    /\ Len(ret[2].val.index) < Len(arg.index)

\* ... and one that fails on the dropped age column
C6_WitnessKeyError ==
    /\ pc = "reselected"
    /\ ret[2].err = "KeyError"
    /\ <<"age">> \notin Range(ret[1].val.columns)

(***************************************************************************)
(* create_treatment                                                        *)
(***************************************************************************)
\* s with x inserted before the first larger element (s ascending)
RECURSIVE Insert(_, _)
Insert(x, s) ==
    IF Len(s) = 0 THEN <<x>>
    ELSE IF x <= s[1] THEN <<x>> \o s
    ELSE <<s[1]>> \o Insert(x, Tail(s))

RECURSIVE Sorted(_)
Sorted(s) == IF Len(s) = 0 THEN <<>> ELSE Insert(s[1], Sorted(Tail(s)))

\* Series.median() of a non-empty sequence, doubled so that the mean of the
\* two middle values of an even-length sequence stays an integer
Median2(s) ==
    LET srt == Sorted(s)
        n   == Len(s)
    IN  IF n % 2 = 1 THEN 2 * srt[(n + 1) \div 2]
        ELSE srt[n \div 2] + srt[n \div 2 + 1]

\* a mutant: values equal to the median are treated
create_treatment_geq(working_hrs) ==
    [i \in 1..Len(working_hrs) |->
        IF 2 * working_hrs[i] >= Median2(working_hrs) THEN 1 ELSE 0]

\* The median of an empty Series is NaN and raises nothing; apply() then
\* visits no element, so the result is the empty list.
create_treatment(working_hrs) ==
    [i \in 1..Len(working_hrs) |->
        IF 2 * working_hrs[i] > Median2(working_hrs) THEN 1 ELSE 0]

(***************************************************************************)
(* The stage create_treatment alone.                                       *)
(***************************************************************************)
HourVals == {10 * k : k \in 1..MaxHourVal}

InitTreat ==
    /\ pc = "treatment"
    /\ cfg = BaseCfg
    /\ arg \in SeqsUpTo(HourVals, MaxLen)
    /\ ret = NoValue
    /\ InitIdle

Treatment ==
    /\ pc = "treatment"
    /\ ret' = <<create_treatment(arg)>>
    /\ pc' = "treated"
    /\ UNCHANGED <<cfg, df, filtered_df, encoded_df, parts, failed_at, arg>>

NextTreat == Treatment

TreatSpec == InitTreat /\ [][NextTreat]_vars

\* v is the k-th smallest value of s (by counting, without sorting)
IsKthSmallest(v, k, s) ==
    /\ v \in Range(s)
    /\ Cardinality({i \in 1..Len(s) : s[i] < v}) < k
    /\ Cardinality({i \in 1..Len(s) : s[i] <= v}) >= k

\* twice the conventional median of the non-empty sequence s
ConventionalMedian2(s) ==
    LET lo == CHOOSE v \in Range(s) : IsKthSmallest(v, (Len(s) + 1) \div 2, s)
        hi == CHOOSE v \in Range(s) : IsKthSmallest(v, Len(s) \div 2 + 1, s)
    IN  lo + hi

\* C2: for a non-empty numeric sequence create_treatment returns a sequence
\* of the same length whose i-th element is 1 exactly when the i-th value is
\* strictly greater than the conventional median, and 0 otherwise; values
\* equal to the median map to 0 and the 1s are no more than the values above
\* the median; hours 10..50 give 0,0,0,1,1.
C2_StrictMedianSplit ==
    (pc = "treated" /\ Len(arg) > 0) =>
        LET out == ret[1]
            m2  == ConventionalMedian2(arg)
        IN  /\ Len(out) = Len(arg)
            /\ \A i \in 1..Len(arg) :
                   /\ out[i] \in {0, 1}
                   /\ out[i] = 1 <=> 2 * arg[i] > m2
                   /\ 2 * arg[i] = m2 => out[i] = 0
            /\ Cardinality({i \in 1..Len(arg) : out[i] = 1})
                   <= Cardinality({i \in 1..Len(arg) : 2 * arg[i] > m2})
            /\ arg = <<10, 20, 30, 40, 50>> => out = <<0, 0, 0, 1, 1>>

\* an even-length input whose median falls between two values, with a value
\* on each side
C2_Witness ==
    /\ pc = "treated"
    /\ Len(arg) = 4
    /\ ConventionalMedian2(arg) = 50
    /\ 20 \in Range(arg) /\ 30 \in Range(arg)
    /\ 1 \in Range(ret[1]) /\ 0 \in Range(ret[1])

\* an input holding its own median, which maps to 0
C2_WitnessTie ==
    /\ pc = "treated"
    /\ arg = <<10, 20, 30, 40, 50>>
    /\ ret[1][3] = 0

(***************************************************************************)
(* encode                                                                  *)
(***************************************************************************)
\* the elements of a finite set of integers, ascending
RECURSIVE Ascending(_)
Ascending(S) ==
    IF S = {} THEN <<>>
    ELSE LET m == CHOOSE x \in S : \A y \in S : x <= y
         IN  <<m>> \o Ascending(S \ {m})

\* Index.unique(): the distinct labels, in the order of their first occurrence
RECURSIVE unique(_)
unique(labels) ==
    IF Len(labels) = 0 THEN <<>>
    ELSE LET before == unique(SubSeq(labels, 1, Len(labels) - 1))
         IN  IF labels[Len(labels)] \in Range(before) THEN before
             ELSE Append(before, labels[Len(labels)])

\* df.columns.difference(categorical_cols, sort=False): the distinct labels
\* that are not in the list, in the order of their first occurrence
difference(columns, categorical_cols) ==
    unique(SelectSeq(columns, LAMBDA c : c \notin Range(categorical_cols)))

\* the categories get_dummies finds in the column at position k: its
\* distinct values that are not missing, sorted
categories(frame, k) ==
    Ascending({frame.values[i][k] : i \in 1..NRows(frame)} \ {NaN})

\* the indicator column get_dummies names "<c>_<v>"
dummy_name(c, v) == <<c[1], v>>

\* data.drop(columns, axis=1): the columns whose label is not in the list
drop(data, columns) ==
    TakePositions(data, KeptPositions([k \in 1..Len(data.columns) |->
                                          data.columns[k] \notin Range(columns)], 1))

\* pd.concat(frames, axis=1) of frames with the same index; ValueError when
\* there is no frame
RECURSIVE concat(_)
concat(frames) ==
    IF Len(frames) = 0 THEN Raise("ValueError")
    ELSE IF Len(frames) = 1 THEN Ok(frames[1])
    ELSE LET rest == concat(Tail(frames)).val
         IN  Ok([columns |-> frames[1].columns \o rest.columns,
                 index   |-> frames[1].index,
                 values  |-> [i \in 1..NRows(frames[1]) |->
                                 frames[1].values[i] \o rest.values[i]]])

\* a mutant: dummy_na=True, one more indicator column per source column, set
\* where the cell is missing
get_dummies_dummy_na(data, columns) ==
    LET data_to_encode == TakeColumns(data, columns)
        with_dummies == IF Len(data_to_encode.columns) = Len(data.columns)
                        THEN <<>>
                        ELSE <<drop(data, columns)>>
        cats(k) == categories(data_to_encode, k) \o <<NaN>>
        dummy(k) ==
            [columns |-> [j \in 1..Len(cats(k)) |->
                             dummy_name(data_to_encode.columns[k], cats(k)[j])],
             index   |-> data.index,
             values  |-> [i \in 1..NRows(data) |->
                             [j \in 1..Len(cats(k)) |->
                                 IF data_to_encode.values[i][k] = cats(k)[j]
                                 THEN 1 ELSE 0]]]
    IN  concat(with_dummies
                   \o [k \in 1..Len(data_to_encode.columns) |-> dummy(k)])

\* pd.get_dummies(data, columns=columns).  data_to_encode = data[columns]
\* selects, for each label of the list, every column of data with that
\* label.  When it has the shape of data nothing is left over; otherwise the
\* columns of data that are not in the list come first.  Then one frame of
\* indicator columns per column of data_to_encode, one column per category;
\* the frames are concatenated.
get_dummies(data, columns) ==
    LET data_to_encode == TakeColumns(data, columns)
        with_dummies == IF Len(data_to_encode.columns) = Len(data.columns)
                        THEN <<>>
                        ELSE <<drop(data, columns)>>
        cats(k) == categories(data_to_encode, k)
        dummy(k) ==
            [columns |-> [j \in 1..Len(cats(k)) |->
                             dummy_name(data_to_encode.columns[k], cats(k)[j])],
             index   |-> data.index,
             values  |-> [i \in 1..NRows(data) |->
                             [j \in 1..Len(cats(k)) |->
                                 IF data_to_encode.values[i][k] = cats(k)[j]
                                 THEN 1 ELSE 0]]]
    IN  concat(with_dummies
                   \o [k \in 1..Len(data_to_encode.columns) |-> dummy(k)])

\* a mutant: the indicator columns are put first
encode_dummies_first(frame, categorical_cols) ==
    IF \E c \in Range(categorical_cols) : ~HasCol(frame, c)
    THEN Raise("KeyError")
    ELSE LET df_no_encode == TakeColumns(frame, difference(frame.columns, categorical_cols))
             df_encoded   == get_dummies(TakeColumns(frame, categorical_cols),
                                         categorical_cols)
         IN  IF df_encoded.err # "none" THEN df_encoded
             ELSE concat(<<df_encoded.val, df_no_encode>>)

encode(frame, categorical_cols) ==
    IF \E c \in Range(categorical_cols) : ~HasCol(frame, c)
    THEN Raise("KeyError")
    ELSE LET df_no_encode == TakeColumns(frame, difference(frame.columns, categorical_cols))
             df_encoded   == get_dummies(TakeColumns(frame, categorical_cols),
                                         categorical_cols)
         IN  IF df_encoded.err # "none" THEN df_encoded
             ELSE concat(<<df_no_encode, df_encoded.val>>)

(***************************************************************************)
(* The stage encode alone.                                                 *)
(***************************************************************************)
EncColumns == <<<<"hour">>, <<"cat1">>, <<"cost">>, <<"cat2">>>>

\* a dataset with two columns of one categorical label, as select_features
\* returns when the label is twice among the selected columns
EncRepeatedCategorical == <<<<"hour">>, <<"cat1">>, <<"cost">>, <<"cat1">>>>

\* a dataset with two columns of one label that is not encoded, and a column
\* between them
EncRepeatedOther == <<<<"hour">>, <<"cost">>, <<"hour">>, <<"cat2">>>>

EncRows ==
    {<<hour, c1, -2, c2>> : hour \in {0, 1}, c1 \in {NaN, 1, 2}, c2 \in {1, 2}}

\* the lists of categorical columns tried on a dataset with distinct labels
EncCategoricalCols ==
    {<<<<"cat1">>, <<"cat2">>>>, <<<<"cat2">>, <<"cat1">>>>, <<<<"cat1">>>>, <<>>,
     <<<<"cat1">>, <<"cat1">>>>, <<<<"cat1">>, <<"cat2">>, <<"cat1">>>>,
     <<<<"cat1">>, <<"cat1">>, <<"cat1">>>>}

\* the pairs <<columns of df, categorical_cols>>
EncCases ==
    {<<EncColumns, cc>> : cc \in EncCategoricalCols}
        \cup {<<EncRepeatedCategorical, <<<<"cat1">>>>>>,
              <<EncRepeatedCategorical, <<<<"cat1">>, <<"cat1">>>>>>,
              <<EncRepeatedOther, <<<<"cat2">>>>>>}

InitEncode ==
    /\ pc = "encode"
    /\ \E x \in EncCases :
           /\ cfg = [BaseCfg EXCEPT !.categorical_cols = x[2]]
           /\ arg \in {MakeFrame(x[1], rows) : rows \in SeqsUpTo(EncRows, MaxEncRows)}
    /\ ret = NoValue
    /\ InitIdle

EncodeOnce ==
    /\ pc = "encode"
    /\ ret' = <<encode(arg, cfg.categorical_cols)>>
    /\ pc' = "encoded"
    /\ UNCHANGED <<cfg, df, filtered_df, encoded_df, parts, failed_at, arg>>

NextEncode == EncodeOnce

EncodeSpec == InitEncode /\ [][NextEncode]_vars

\* the positions of the input columns labelled c
CopiesOf(c) == {p \in 1..Len(arg.columns) : arg.columns[p] = c}

\* the cell of input row i in the (first) input column labelled c
EncCell(i, c) ==
    arg.values[i][CHOOSE p \in CopiesOf(c) : \A q \in CopiesOf(c) : p <= q]

\* the positions of the output columns that are indicators of source column c
IndicatorsOf(out, c) ==
    {k \in 1..Len(out.columns) : Len(out.columns[k]) = 2 /\ out.columns[k][1] = c[1]}

\* the number of times c is in the list of categorical columns
Occurrences(c) ==
    Cardinality({k \in 1..Len(cfg.categorical_cols) : cfg.categorical_cols[k] = c})

\* the labels of the input and the elements of the list are distinct
DistinctLabels ==
    /\ \A c \in Range(arg.columns) : Cardinality(CopiesOf(c)) = 1
    /\ \A c \in Range(cfg.categorical_cols) : Occurrences(c) = 1

\* the j-th element of a set of positions, ascending
Nth(S, j) == CHOOSE p \in S : Cardinality({q \in S : q < p}) = j - 1

\* the output has the rows of the input, and the columns of each label that
\* is not encoded are in the output with their values, in their order
RowsAndOthersKept(out) ==
    /\ out.index = arg.index
    /\ Len(out.values) = Len(arg.values)
    /\ \A i \in 1..Len(arg.values) : Len(out.values[i]) = Len(out.columns)
    /\ \A c \in Range(arg.columns) \ Range(cfg.categorical_cols) :
           LET kept == {k \in 1..Len(out.columns) : out.columns[k] = c}
           IN  /\ Cardinality(kept) = Cardinality(CopiesOf(c))
               /\ \A j \in 1..Cardinality(kept) : \A i \in 1..Len(arg.values) :
                      out.values[i][Nth(kept, j)] = arg.values[i][Nth(CopiesOf(c), j)]

\* C3 as stated: for every dataset and every list of existing categorical
\* columns, encode returns a dataset with the same rows in which, in every
\* row, for every encoded source column, exactly one indicator of that source
\* is 1 (the one of the cell's value) when the cell is present, and all are 0
\* when it is missing; there is no indicator column for the missing value;
\* every other column keeps its values.
C3_AsStated ==
    pc = "encoded" =>
        /\ ret[1].err = "none"
        /\ LET out == ret[1].val
           IN  /\ RowsAndOthersKept(out)
               /\ \A i \in 1..Len(arg.values) : \A c \in Range(cfg.categorical_cols) :
                      /\ \A k \in IndicatorsOf(out, c) : out.values[i][k] \in {0, 1}
                      /\ Cardinality({k \in IndicatorsOf(out, c) : out.values[i][k] = 1})
                             = IF EncCell(i, c) = NaN THEN 0 ELSE 1
                      /\ \A k \in IndicatorsOf(out, c) :
                             out.values[i][k] = 1 <=> out.columns[k][2] = EncCell(i, c)
                      /\ \A k \in IndicatorsOf(out, c) : out.columns[k][2] # NaN

\* C3 amended: with the empty list encode returns nothing and fails with
\* ValueError.  With a list of one or more existing columns it returns a
\* dataset with the same rows in which every other column keeps its values,
\* every indicator is 0 or 1, there is no indicator column for the missing
\* value, and in every row, for a source label that is m times in the list
\* and every value v, the indicators named for v that are 1 are m * m for
\* each column of the dataset with that label whose cell is v: exactly one
\* indicator of the source is 1 for a present cell, and none for a missing
\* one, when the labels of the dataset and the elements of the list are
\* distinct.  cat1 = 1,2,1 gives cat1_1 = 1,0,1 and cat1_2 = 0,1,0.
C3_OneHotRows ==
    pc = "encoded" =>
        IF Len(cfg.categorical_cols) = 0
        THEN ret[1].err = "ValueError"
        ELSE /\ ret[1].err = "none"
             /\ LET out == ret[1].val
                    named == {out.columns[k][2] : k \in {q \in 1..Len(out.columns) :
                                                            Len(out.columns[q]) = 2}}
                    cells == {arg.values[i][p] : i \in 1..Len(arg.values),
                                                 p \in 1..Len(arg.columns)}
                IN  /\ RowsAndOthersKept(out)
                    /\ \A k \in 1..Len(out.columns) :
                           Len(out.columns[k]) = 2 =>
                               /\ <<out.columns[k][1]>> \in Range(cfg.categorical_cols)
                               /\ out.columns[k][2] # NaN
                               /\ \A i \in 1..Len(arg.values) : out.values[i][k] \in {0, 1}
                    /\ \A c \in Range(cfg.categorical_cols) :
                           \A i \in 1..Len(arg.values) :
                               /\ \A v \in (named \cup cells) \ {NaN} :
                                      Cardinality({k \in 1..Len(out.columns) :
                                                      /\ out.columns[k] = <<c[1], v>>
                                                      /\ out.values[i][k] = 1})
                                          = Occurrences(c) * Occurrences(c)
                                              * Cardinality({p \in CopiesOf(c) :
                                                                arg.values[i][p] = v})
                               /\ DistinctLabels =>
                                      Cardinality({k \in IndicatorsOf(out, c) :
                                                      out.values[i][k] = 1})
                                          = IF EncCell(i, c) = NaN THEN 0 ELSE 1
                    /\ (/\ DistinctLabels
                        /\ <<"cat1">> \in Range(cfg.categorical_cols)
                        /\ Column(arg, <<"cat1">>) = <<1, 2, 1>>) =>
                           /\ Column(out, <<"cat1", 1>>) = <<1, 0, 1>>
                           /\ Column(out, <<"cat1", 2>>) = <<0, 1, 0>>

\* a dataset with a missing cell and a present cell in an encoded column
C3_Witness ==
    /\ pc = "encoded"
    /\ DistinctLabels
    /\ ret[1].err = "none"
    /\ Len(arg.values) = 3
    /\ Column(arg, <<"cat1">>) = <<2, NaN, 1>>
    /\ Column(ret[1].val, <<"cat1", 1>>) = <<0, 0, 1>>
    /\ Column(ret[1].val, <<"cat1", 2>>) = <<1, 0, 0>>

\* a column that is twice in the list: four copies of its indicators
C3_WitnessRepeated ==
    /\ pc = "encoded"
    /\ arg.columns = EncColumns
    /\ cfg.categorical_cols = <<<<"cat1">>, <<"cat1">>>>
    /\ Column(arg, <<"cat1">>) = <<1, 2, 1>>
    /\ ret[1].err = "none"
    /\ ret[1].val.columns =
           <<<<"hour">>, <<"cost">>, <<"cat2">>,
             <<"cat1", 1>>, <<"cat1", 2>>, <<"cat1", 1>>, <<"cat1", 2>>,
             <<"cat1", 1>>, <<"cat1", 2>>, <<"cat1", 1>>, <<"cat1", 2>>>>
    /\ ret[1].val.values[1] = <<0, -2, 1, 1, 0, 1, 0, 1, 0, 1, 0>>

\* a column that is three times in the list: nine copies of its indicator
C3_WitnessThrice ==
    /\ pc = "encoded"
    /\ arg.columns = EncColumns
    /\ Occurrences(<<"cat1">>) = 3
    /\ Column(arg, <<"cat1">>) = <<1>>
    /\ ret[1].err = "none"
    /\ Cardinality(IndicatorsOf(ret[1].val, <<"cat1">>)) = 9

\* a label that is twice in the list and twice in the dataset: eight
\* indicator groups, four of each of its columns
C3_WitnessRepeatedLabel ==
    /\ pc = "encoded"
    /\ arg.columns = EncRepeatedCategorical
    /\ Occurrences(<<"cat1">>) = 2
    /\ arg.values = <<<<0, 1, -2, 2>>>>
    /\ ret[1].err = "none"
    /\ ret[1].val.columns =
           <<<<"hour">>, <<"cost">>,
             <<"cat1", 1>>, <<"cat1", 2>>, <<"cat1", 1>>, <<"cat1", 2>>,
             <<"cat1", 1>>, <<"cat1", 2>>, <<"cat1", 1>>, <<"cat1", 2>>>>

\* a dataset of one row encoded with the empty list of categorical columns
C3_WitnessEmptyList ==
    /\ pc = "encoded"
    /\ Len(cfg.categorical_cols) = 0
    /\ Len(arg.values) = 1
    /\ ret[1].err = "ValueError"

\* the distinct present values of s in the order of their first occurrence
RECURSIVE FirstOccurrences(_, _)
FirstOccurrences(s, seen) ==
    IF Len(s) = 0 THEN <<>>
    ELSE IF s[1] = NaN \/ s[1] \in seen THEN FirstOccurrences(Tail(s), seen)
    ELSE <<s[1]>> \o FirstOccurrences(Tail(s), seen \cup {s[1]})

\* the indicator names of source c for a sequence of values
Group(c, vs) == [j \in 1..Len(vs) |-> <<c[1], vs[j]>>]

\* the values of the input column at position p, by first occurrence
ByFirstOccurrence(p) ==
    FirstOccurrences([i \in 1..Len(arg.values) |-> arg.values[i][p]], {})

\* the values of the input column at position p, ascending
ByValue(p) ==
    Ascending({arg.values[i][p] : i \in 1..Len(arg.values)} \ {NaN})

\* the first column labelled c
FirstCopy(c) == Nth(CopiesOf(c), 1)

\* the output columns as stated: the columns that are not encoded in their
\* original order, then one group per element of the list
EncodedColumns(order(_)) ==
    SelectSeq(arg.columns, LAMBDA c : c \notin Range(cfg.categorical_cols))
        \o Flatten([k \in 1..Len(cfg.categorical_cols) |->
               Group(cfg.categorical_cols[k], order(FirstCopy(cfg.categorical_cols[k])))])

\* the labels that are not encoded, in the order of their first occurrence,
\* each as many times as it is in the dataset
OthersByLabel ==
    LET others == SelectSeq(arg.columns, LAMBDA c : c \notin Range(cfg.categorical_cols))
        first == SelectSeq([p \in 1..Len(arg.columns) |-> p],
                           LAMBDA p : /\ arg.columns[p] \notin Range(cfg.categorical_cols)
                                      /\ p = FirstCopy(arg.columns[p]))
    IN  Flatten([j \in 1..Len(first) |->
                    [q \in 1..Cardinality(CopiesOf(arg.columns[first[j]])) |->
                        arg.columns[first[j]]]])

\* the groups of the element at place k of the list: for every occurrence of
\* its label in the list, one group of each column with that label
GroupsAt(k) ==
    LET c == cfg.categorical_cols[k]
        copies == [j \in 1..Cardinality(CopiesOf(c)) |->
                      Group(c, ByValue(Nth(CopiesOf(c), j)))]
    IN  Flatten([n \in 1..Occurrences(c) |-> Flatten(copies)])

\* C9 as stated: non-categorical columns first in their original order, then
\* the indicator columns grouped by source in categorical_cols order, one
\* per distinct value, within a group in order of first occurrence.
C9_AsStated ==
    (pc = "encoded" /\ ret[1].err = "none") =>
        ret[1].val.columns = EncodedColumns(ByFirstOccurrence)

\* C9 amended: the columns that are not encoded come first, label by label
\* in the order of the labels' first occurrence; then, for each place of the
\* list in turn, for every occurrence of its label in the list, one group of
\* each column of the dataset with that label; a group has one indicator
\* per distinct present value of its column, in ascending order of the
\* value.  With distinct labels and a list of distinct columns: the other
\* columns in their original order, then one group per source in
\* categorical_cols order.
C9_ColumnsSortedByValue ==
    (pc = "encoded" /\ ret[1].err = "none") =>
        /\ ret[1].val.columns =
               OthersByLabel
                   \o Flatten([k \in 1..Len(cfg.categorical_cols) |-> GroupsAt(k)])
        /\ DistinctLabels => ret[1].val.columns = EncodedColumns(ByValue)

\* two encoded sources, the second listed first, values first met descending
C9_Witness ==
    /\ pc = "encoded"
    /\ arg.columns = EncColumns
    /\ cfg.categorical_cols = <<<<"cat2">>, <<"cat1">>>>
    /\ Column(arg, <<"cat1">>) = <<2, NaN, 1>>
    /\ Column(arg, <<"cat2">>) = <<2, 1, 1>>
    /\ ret[1].val.columns = <<<<"hour">>, <<"cost">>, <<"cat2", 1>>, <<"cat2", 2>>,
                               <<"cat1", 1>>, <<"cat1", 2>>>>

\* a label that is not encoded twice in the dataset, around another column:
\* its two columns come first, together
C9_WitnessRepeatedOther ==
    /\ pc = "encoded"
    /\ arg.columns = EncRepeatedOther
    /\ arg.values = <<<<1, 2, -2, 1>>>>
    /\ ret[1].err = "none"
    /\ ret[1].val.columns = <<<<"hour">>, <<"hour">>, <<"cost">>, <<"cat2", 1>>>>
    /\ ret[1].val.values = <<<<1, -2, 2, 1>>>>

(***************************************************************************)
(* split: two calls of sklearn's train_test_split(..., stratify=...).      *)
(* The generator seeded with random_state=42 is not modelled: wherever the *)
(* library draws at random (which of several classes with equal remainders *)
(* receives a row, which rows of a class go to which side, in which order  *)
(* the rows of a side come back) the model takes every outcome.  Quotients *)
(* are compared exactly, where the library compares floats: rounding can   *)
(* separate two equal remainders, so the library's outcomes are among the  *)
(* model's.                                                                *)
(***************************************************************************)
Min(S) == CHOOSE x \in S : \A y \in S : x <= y

\* ceil(a / b) for a >= 0, b > 0
CeilDiv(a, b) == (a + b - 1) \div b

\* _validate_shuffle_split with test_size = num/den and train_size = None:
\* n_test = ceil(test_size * n_samples), n_train = n_samples - n_test, and
\* ValueError when the train set would be empty
validate_shuffle_split(n_samples, num, den) ==
    LET n_test  == CeilDiv(n_samples * num, den)
        n_train == n_samples - n_test
    IN  IF n_train = 0 THEN Raise("ValueError")
        ELSE Ok([n_train |-> n_train, n_test |-> n_test])

\* _approximate_mode: class c receives floor(class_counts[c] * n_draws / total)
\* draws, and the draws still missing go one each to the classes with the
\* largest remainders, ties broken at random
approximate_mode(class_counts, n_draws) ==
    LET K == 1..Len(class_counts)
        total == SeqSum(class_counts)
        floored == [c \in K |-> (class_counts[c] * n_draws) \div total]
        remainder == [c \in K |-> (class_counts[c] * n_draws) % total]
        need_to_add == n_draws - SeqSum(floored)
        picks == {A \in SUBSET K :
                     /\ Cardinality(A) = need_to_add
                     /\ \A i \in A : \A j \in K \ A : remainder[i] >= remainder[j]}
    IN  {[c \in K |-> floored[c] + (IF c \in A THEN 1 ELSE 0)] : A \in picks}

\* a mutant: no check of the least populated class
stratified_counts_unchecked(class_counts, n_train, n_test) ==
    IF \/ n_train < Len(class_counts)
       \/ n_test < Len(class_counts)
    THEN {Raise("ValueError")}
    ELSE UNION {
            {Ok([n_i |-> n_i, t_i |-> t_i]) :
                t_i \in approximate_mode(
                           [c \in 1..Len(class_counts) |-> class_counts[c] - n_i[c]],
                           n_test)} :
            n_i \in approximate_mode(class_counts, n_train)}

\* StratifiedShuffleSplit._iter_indices: the number of rows of each class
\* that go to the train side (n_i) and to the test side (t_i)
stratified_counts(class_counts, n_train, n_test) ==
    IF \/ Min(Range(class_counts)) < 2
       \/ n_train < Len(class_counts)
       \/ n_test < Len(class_counts)
    THEN {Raise("ValueError")}
    ELSE UNION {
            {Ok([n_i |-> n_i, t_i |-> t_i]) :
                t_i \in approximate_mode(
                           [c \in 1..Len(class_counts) |-> class_counts[c] - n_i[c]],
                           n_test)} :
            n_i \in approximate_mode(class_counts, n_train)}

\* rng.permutation(m): every order of 1..m
permutation(m) ==
    {p \in [1..m -> 1..m] : \A i, j \in 1..m : p[i] = p[j] => i = j}

\* train_test_split(frame, test_size=num/den, stratify=y): every
\* <<train, test>> it can return, or the error it raises.  Of each class c,
\* n_i[c] rows drawn at random go to train and t_i[c] of the others to test,
\* and each side comes back shuffled.  n_train + n_test = n_samples, so
\* t_i[c] rows of class c are all its rows that are not in train.
train_test_split(frame, num, den, y) ==
    LET n == NRows(frame)
        sizes == validate_shuffle_split(n, num, den)
        classes == Ascending(Range(y))
        class_of == [i \in 1..n |-> CHOOSE c \in 1..Len(classes) : classes[c] = y[i]]
        class_counts == [c \in 1..Len(classes) |->
                            Cardinality({i \in 1..n : class_of[i] = c})]
        counts == stratified_counts(class_counts, sizes.val.n_train, sizes.val.n_test)
        in_class(rows, c) == Cardinality({j \in 1..Len(rows) : class_of[rows[j]] = c})
        \* the shuffled train side, with the counts it was dealt by
        trains == {x \in {cnt \in counts : cnt.err = "none"}
                            \X [1..sizes.val.n_train -> 1..n] :
                      /\ \A i, j \in 1..sizes.val.n_train : x[2][i] = x[2][j] => i = j
                      /\ \A c \in 1..Len(classes) : in_class(x[2], c) = x[1].val.n_i[c]}
        \* the rows that are not in train, in dataset order
        others(train) == KeptPositions([i \in 1..n |-> i \notin Range(train)], 1)
        test(x, p) == LET rest == others(x[2]) IN [j \in 1..Len(p) |-> rest[p[j]]]
    IN  IF sizes.err # "none" THEN {sizes}
        ELSE {cnt \in counts : cnt.err # "none"}
                \cup {Ok(<<TakeRows(frame, x[2]), TakeRows(frame, test(x, p))>>) :
                         x \in {z \in trains :
                                   \A c \in 1..Len(classes) :
                                       in_class(others(z[2]), c) = z[1].val.t_i[c]},
                         p \in permutation(sizes.val.n_test)}

\* lines 177-182: the first call, on df
first_split(frame, treatment_col) ==
    IF ~HasCol(frame, treatment_col) THEN {Raise("KeyError")}
    ELSE train_test_split(frame, 2, 5, Column(frame, treatment_col))

\* a mutant: valid_df is rest_df, not the train side of the second call
second_split_keeps_rest(first, treatment_col) ==
    IF first.err # "none" THEN {first}
    ELSE {IF second.err # "none" THEN second
          ELSE Ok(<<first.val[1], first.val[2], second.val[2]>>) :
          second \in train_test_split(first.val[2], 1, 2,
                                      Column(first.val[2], treatment_col))}

\* lines 183-193: the second call, on rest_df, and the return of
\* <<train_df, valid_df, test_df>>; an error of the first call goes through
second_split(first, treatment_col) ==
    IF first.err # "none" THEN {first}
    ELSE {IF second.err # "none" THEN second
          ELSE Ok(<<first.val[1], second.val[1], second.val[2]>>) :
          second \in train_test_split(first.val[2], 1, 2,
                                      Column(first.val[2], treatment_col))}

\* split: every <<train_df, valid_df, test_df>> it can return, or the error
split(frame, treatment_col) ==
    UNION {second_split(first, treatment_col) :
           first \in first_split(frame, treatment_col)}

(***************************************************************************)
(* The stage split alone, on datasets with a binary treatment column.      *)
(***************************************************************************)
SplitColumns == <<<<"hour">>, <<"cost">>>>

\* a rows of treatment 0 followed by b rows of treatment 1
SplitFrame(a, b) ==
    MakeFrame(SplitColumns, [i \in 1..(a + b) |-> <<IF i <= a THEN 0 ELSE 1, -2>>])

\* datasets of up to MaxSplitRows rows with up to MaxPerClass rows of each
\* treatment class, and at least as many rows of treatment 0 as of
\* treatment 1 (the treatment is 1 above the median)
SplitFrames ==
    UNION {{SplitFrame(a, b) : b \in {q \in 0..a : a + q <= MaxSplitRows}} :
           a \in 0..MaxPerClass}

\* the treatment column is cfg.hour_col; with "gain" for it, the column is
\* not in the dataset
InitSplit ==
    /\ pc = "split"
    /\ cfg \in {BaseCfg, [BaseCfg EXCEPT !.hour_col = <<"gain">>]}
    /\ arg \in SplitFrames
    /\ ret = NoValue
    /\ InitIdle

\* r \in split(arg, cfg.hour_col), taken call by call
SplitOnce ==
    /\ pc = "split"
    /\ \E first \in first_split(arg, cfg.hour_col) :
           \E r \in second_split(first, cfg.hour_col) :
               /\ ret' = <<r>>
               /\ pc' = IF r.err = "none" THEN "split_done" ELSE "split_failed"
    /\ UNCHANGED <<cfg, df, filtered_df, encoded_df, parts, failed_at, arg>>

NextSplit == SplitOnce

SplitSpec == InitSplit /\ [][NextSplit]_vars

\* C4: when split returns, train, valid and test are pairwise disjoint as
\* row sets, hold no row twice, and together hold exactly the input rows.
C4_Partition ==
    pc = "split_done" =>
        LET train == ret[1].val[1].index
            valid == ret[1].val[2].index
            test  == ret[1].val[3].index
        IN  /\ Range(train) \cap Range(valid) = {}
            /\ Range(train) \cap Range(test) = {}
            /\ Range(valid) \cap Range(test) = {}
            /\ Range(train) \cup Range(valid) \cup Range(test) = Range(arg.index)
            /\ Len(train) + Len(valid) + Len(test) = Len(arg.index)
            /\ \A p \in 1..3 :
                   \A j \in 1..Len(ret[1].val[p].index) :
                       \E i \in 1..Len(arg.index) :
                           /\ arg.index[i] = ret[1].val[p].index[j]
                           /\ arg.values[i] = ret[1].val[p].values[j]

\* a split of eight rows, four of each class, into 4 + 2 + 2, each part
\* shuffled
C4_Witness ==
    /\ pc = "split_done"
    /\ Column(arg, <<"hour">>) = <<0, 0, 0, 0, 1, 1, 1, 1>>
    /\ ret[1].val[1].index = <<7, 1, 3, 5>>
    /\ ret[1].val[2].index = <<6, 0>>
    /\ ret[1].val[3].index = <<4, 2>>

\* a split that fails because the treatment column is not in the dataset
C4_WitnessKeyError ==
    /\ pc = "split_failed"
    /\ ~HasCol(arg, cfg.hour_col)
    /\ ret[1].err = "KeyError"

(***************************************************************************)
(* split, counted per class: the rows of one class are interchangeable, so *)
(* what split does to the class sizes is decided by the class sizes alone. *)
(* class_counts[c] is the number of input rows of the c-th class.          *)
(***************************************************************************)
\* one stratified train_test_split on class sizes: the sizes of the classes
\* on the train and on the test side
train_test_split_counts(class_counts, num, den) ==
    LET sizes == validate_shuffle_split(SeqSum(class_counts), num, den)
    IN  IF sizes.err # "none" THEN {sizes}
        ELSE stratified_counts(class_counts, sizes.val.n_train, sizes.val.n_test)

\* a mutant: both calls use test_size=0.5
split_counts_half(class_counts) ==
    LET K == 1..Len(class_counts)
    IN  UNION {
            IF first.err # "none" THEN {first}
            ELSE LET rest == first.val.t_i
                     present == KeptPositions([c \in K |-> rest[c] > 0], 1)
                     at(c) == CHOOSE j \in 1..Len(present) : present[j] = c
                 IN  UNION {
                         IF second.err # "none" THEN {second}
                         ELSE {Ok([train |-> first.val.n_i,
                                   valid |-> [c \in K |-> IF rest[c] > 0
                                                THEN second.val.n_i[at(c)] ELSE 0],
                                   test  |-> [c \in K |-> IF rest[c] > 0
                                                THEN second.val.t_i[at(c)] ELSE 0]])} :
                         second \in train_test_split_counts(
                                        [j \in 1..Len(present) |-> rest[present[j]]], 1, 2)} :
            first \in train_test_split_counts(class_counts, 1, 2)}

\* split on class sizes.  A class with no row in rest_df is not a class of
\* rest_df[treatment_col]: the second call does not see it.
split_counts(class_counts) ==
    LET K == 1..Len(class_counts)
    IN  UNION {
            IF first.err # "none" THEN {first}
            ELSE LET rest == first.val.t_i
                     present == KeptPositions([c \in K |-> rest[c] > 0], 1)
                     at(c) == CHOOSE j \in 1..Len(present) : present[j] = c
                 IN  UNION {
                         IF second.err # "none" THEN {second}
                         ELSE {Ok([train |-> first.val.n_i,
                                   valid |-> [c \in K |-> IF rest[c] > 0
                                                THEN second.val.n_i[at(c)] ELSE 0],
                                   test  |-> [c \in K |-> IF rest[c] > 0
                                                THEN second.val.t_i[at(c)] ELSE 0]])} :
                         second \in train_test_split_counts(
                                        [j \in 1..Len(present) |-> rest[present[j]]], 1, 2)} :
            first \in train_test_split_counts(class_counts, 2, 5)}

\* one or two classes of up to MaxBinCount rows (the pipeline's treatment is
\* binary), and three to MaxClasses classes of up to MaxClassCount rows,
\* listed from the smallest class to the largest
\* The inputs leave out the class sizes on which the first call would have
\* to rank two classes of different sizes with equal non-zero remainders:
\* there the library's float comparison decides, and the exact comparison
\* of approximate_mode cannot tell which way.
FloatRankingKnown(class_counts) ==
    LET n == SeqSum(class_counts)
        n_train == n - CeilDiv(2 * n, 5)
        remainder(c) == (class_counts[c] * n_train) % n
    IN  \A c, d \in 1..Len(class_counts) :
            (class_counts[c] # class_counts[d] /\ remainder(c) = remainder(d))
                => remainder(c) = 0

\* the sequences of exactly k class sizes, from the smallest to the largest
RECURSIVE AscendingCounts(_)
AscendingCounts(k) ==
    IF k = 0 THEN {<<>>}
    ELSE UNION {{Append(s, m) :
                    m \in {q \in 1..MaxClassCount : Len(s) = 0 \/ s[Len(s)] <= q}} :
                s \in AscendingCounts(k - 1)}

ClassCountInputs ==
    {s \in UNION {[1..k -> 1..MaxBinCount] : k \in 1..2}
            \cup UNION {AscendingCounts(k) : k \in 3..MaxClasses} :
        FloatRankingKnown(s)}

InitSplitCounts ==
    /\ pc = "split"
    /\ cfg = BaseCfg
    /\ arg \in ClassCountInputs
    /\ ret = NoValue
    /\ InitIdle

SplitCountsReturns ==
    /\ pc = "split"
    /\ \E r \in split_counts(arg) :
           /\ r.err = "none"
           /\ ret' = <<r>>
    /\ pc' = "split_done"
    /\ UNCHANGED <<cfg, df, filtered_df, encoded_df, parts, failed_at, arg>>

SplitCountsRaises ==
    /\ pc = "split"
    /\ \E r \in split_counts(arg) :
           /\ r.err # "none"
           /\ ret' = <<r>>
    /\ pc' = "split_failed"
    /\ UNCHANGED <<cfg, df, filtered_df, encoded_df, parts, failed_at, arg>>

NextSplitCounts == SplitCountsReturns \/ SplitCountsRaises

SplitCountsSpec == InitSplitCounts /\ [][NextSplitCounts]_vars

Abs(x) == IF x < 0 THEN -x ELSE x

\* valid and test each hold, of every class, within one row of half of the
\* rows of the class that are not in train
HalvesOfTheRest(out) ==
    \A c \in 1..Len(arg) :
        LET rest == arg[c] - out.train[c]
        IN  /\ Abs(2 * out.valid[c] - rest) <= 2
            /\ Abs(2 * out.test[c] - rest) <= 2

TenRowExample(out) ==
    arg = <<5, 5>> =>
        out.train = <<3, 3>> /\ out.valid = <<1, 1>> /\ out.test = <<1, 1>>

\* C5 as stated: when split returns, every class has within 1 row of 60% of
\* its rows in train, and within 1 row of 50% of its other rows in valid
\* and in test; 5 + 5 rows give train 3 + 3, valid 1 + 1, test 1 + 1.
C5_AsStated ==
    pc = "split_done" =>
        LET out == ret[1].val
        IN  /\ \A c \in 1..Len(arg) : Abs(5 * out.train[c] - 3 * arg[c]) <= 5
            /\ HalvesOfTheRest(out)
            /\ TenRowExample(out)

\* C5 amended: the train share of a class is its share of the train size
\* n_train = n - ceil(0.4 n), rounded down or up, which is less than 2 rows
\* from 60% of the class (not always within 1); valid, test and the example
\* are as stated.
C5_TrainShareRounded ==
    pc = "split_done" =>
        LET out == ret[1].val
            n == SeqSum(arg)
            n_train == n - CeilDiv(2 * n, 5)
        IN  /\ \A c \in 1..Len(arg) :
                   /\ out.train[c] * n > arg[c] * n_train - n
                   /\ out.train[c] * n < arg[c] * n_train + n
                   /\ Abs(5 * out.train[c] - 3 * arg[c]) < 10
            /\ HalvesOfTheRest(out)
            /\ TenRowExample(out)

\* the example of the claim
C5_Witness ==
    /\ pc = "split_done"
    /\ arg = <<5, 5>>
    /\ ret[1].val.train = <<3, 3>>

\* a class more than one row short of 60% in train, with no tie involved
C5_WitnessShort ==
    /\ pc = "split_done"
    /\ arg = <<6, 47>>
    /\ ret[1].val.train = <<4, 27>>

\* C8 as stated: when split returns, every class of the input has at least
\* one row in each of train, valid and test.
C8_AsStated ==
    pc = "split_done" =>
        \A c \in 1..Len(arg) :
            /\ ret[1].val.train[c] >= 1
            /\ ret[1].val.valid[c] >= 1
            /\ ret[1].val.test[c] >= 1

\* C8 amended: split fails when a class has fewer than 2 rows in the input,
\* and does not return with exactly one row of a class outside train; when
\* it returns, every class has a row in train, and a row in each of valid
\* and test unless all its rows are in train, which does not happen with
\* fewer than five classes.
C8_EveryClassInTrain ==
    /\ (pc \in {"split_done", "split_failed"} /\ \E c \in 1..Len(arg) : arg[c] < 2)
           => pc = "split_failed" /\ ret[1].err = "ValueError"
    /\ pc = "split_done" =>
           \A c \in 1..Len(arg) :
               LET out == ret[1].val
               IN  /\ out.train[c] >= 1
                   /\ arg[c] - out.train[c] # 1
                   /\ \/ out.valid[c] >= 1 /\ out.test[c] >= 1
                      \/ out.train[c] = arg[c] /\ out.valid[c] = 0 /\ out.test[c] = 0
                   /\ Len(arg) < 5 => out.valid[c] >= 1 /\ out.test[c] >= 1

\* a class of 2 rows, both in train, with no tie involved
C8_Witness ==
    /\ pc = "split_done"
    /\ arg = <<2, 7, 7, 7, 7, 7>>
    /\ ret[1].val.train[1] = 2
    /\ ret[1].val.valid[1] = 0

(***************************************************************************)
(* main: the pipeline.                                                     *)
(***************************************************************************)
\* a raw row, eligible by age and citizen status
PipeRow(cost, hour) == <<4, 0, cost, hour, 7, 1, 1, 9>>

\* No stage looks at the order of the rows except to keep it.  A raw dataset
\* lists d rows below the cost threshold, then a rows of 10 hours, b rows of
\* 20 hours and c rows of 30 hours that pass it.
PipeFrame(a, b, c, d) ==
    MakeFrame(RawColumns,
        [i \in 1..(a + b + c + d) |->
            IF i <= d THEN PipeRow(1, 20)
            ELSE IF i <= d + a THEN PipeRow(2, 10)
            ELSE IF i <= d + a + b THEN PipeRow(3, 20)
            ELSE PipeRow(2, 30)])

PipeInputs ==
    {PipeFrame(x[1], x[2], x[3], x[4]) :
        x \in {y \in (0..MaxLowRows) \X (0..MaxMidRows) \X (0..MaxHighRows)
                        \X (0..MaxIneligibleRows) :
                  y[1] + y[2] + y[3] + y[4] <= MaxPipeRows}}

Init ==
    /\ pc = "select"
    /\ cfg = BaseCfg
    /\ df \in PipeInputs
    /\ filtered_df = EmptyFrame
    /\ encoded_df = EmptyFrame
    /\ parts = NoValue
    /\ failed_at = "none"
    /\ arg = NoValue
    /\ ret = NoValue

\* line 20
SelectFeatures ==
    /\ pc = "select"
    /\ LET r == select_features(df, cfg)
       IN  IF r.err = "none"
           THEN /\ filtered_df' = r.val
                /\ pc' = "treatment"
                /\ failed_at' = failed_at
           ELSE /\ filtered_df' = filtered_df
                /\ pc' = "failed"
                /\ failed_at' = "select"
    /\ UNCHANGED <<cfg, df, encoded_df, parts, arg, ret>>

\* a mutant: an empty hour column is an error of the treatment stage
CreateTreatmentRaisesOnEmpty ==
    /\ pc = "treatment"
    /\ IF NRows(filtered_df) = 0
       THEN /\ filtered_df' = filtered_df
            /\ pc' = "failed"
            /\ failed_at' = "treatment"
       ELSE /\ filtered_df' = SetColumn(filtered_df, cfg.hour_col,
                                  create_treatment(Column(filtered_df, cfg.hour_col)))
            /\ pc' = "cost"
            /\ failed_at' = failed_at
    /\ UNCHANGED <<cfg, df, encoded_df, parts, arg, ret>>

\* a mutant: the treatment is computed and not stored
CreateTreatmentNotStored ==
    /\ pc = "treatment"
    /\ pc' = "cost"
    /\ UNCHANGED <<cfg, df, filtered_df, encoded_df, parts, failed_at, arg, ret>>

\* lines 23-24
CreateTreatment ==
    /\ pc = "treatment"
    /\ filtered_df' = SetColumn(filtered_df, cfg.hour_col,
                          create_treatment(Column(filtered_df, cfg.hour_col)))
    /\ pc' = "cost"
    /\ UNCHANGED <<cfg, df, encoded_df, parts, failed_at, arg, ret>>

\* line 32
FlipCost ==
    /\ pc = "cost"
    /\ filtered_df' = SetColumn(filtered_df, cfg.cost_col,
                          [i \in 1..NRows(filtered_df) |->
                              Column(filtered_df, cfg.cost_col)[i] * (-1)])
    /\ pc' = "encode"
    /\ UNCHANGED <<cfg, df, encoded_df, parts, failed_at, arg, ret>>

\* line 39
Encode ==
    /\ pc = "encode"
    /\ LET r == encode(filtered_df, cfg.categorical_cols)
       IN  IF r.err = "none"
           THEN /\ encoded_df' = r.val
                /\ pc' = "split"
                /\ failed_at' = failed_at
           ELSE /\ encoded_df' = encoded_df
                /\ pc' = "failed"
                /\ failed_at' = "encode"
    /\ UNCHANGED <<cfg, df, filtered_df, parts, arg, ret>>

\* line 42
Split ==
    /\ pc = "split"
    /\ \E first \in first_split(encoded_df, cfg.hour_col) :
           \E r \in second_split(first, cfg.hour_col) :
               IF r.err = "none"
               THEN /\ parts' = r.val
                    /\ pc' = "export"
                    /\ failed_at' = failed_at
               ELSE /\ parts' = parts
                    /\ pc' = "failed"
                    /\ failed_at' = "split"
    /\ UNCHANGED <<cfg, df, filtered_df, encoded_df, arg, ret>>

\* lines 61-65
Export ==
    /\ pc = "export"
    /\ pc' = "done"
    /\ UNCHANGED <<cfg, df, filtered_df, encoded_df, parts, failed_at, arg, ret>>

Next ==
    \/ SelectFeatures
    \/ CreateTreatment
    \/ FlipCost
    \/ Encode
    \/ Split
    \/ Export

Spec == Init /\ [][Next]_vars

\* select_features has returned and retained no row
RetainedNothing ==
    /\ pc # "select"
    /\ \A i \in 1..Len(df.index) : ~(df.values[i][3] >= 2)

\* C7 as stated: when select_features retains no row, create_treatment
\* fails and the run ends at the treatment stage, before the cost flip.
C7_AsStated ==
    RetainedNothing =>
        /\ pc \in {"treatment", "failed"}
        /\ pc = "failed" => failed_at = "treatment"

\* C7 amended: on a sequence of length zero create_treatment returns the
\* empty sequence without an error; when select_features retains no row the
\* run goes on through the cost flip and the encoding and ends in split,
\* with ValueError, before the export.
C7_EmptyRunEndsInSplit ==
    RetainedNothing =>
        /\ Len(filtered_df.index) = 0
        /\ Len(filtered_df.values) = 0
        /\ pc \in {"treatment", "cost", "encode", "split", "failed"}
        /\ pc = "failed" => failed_at = "split"
        /\ pc # "failed" => ENABLED Next

\* a run on ineligible rows only, ended by split
C7_Witness ==
    /\ RetainedNothing
    /\ Len(df.index) > 0
    /\ pc = "failed"
    /\ failed_at = "split"
    /\ encoded_df.columns = <<<<"hour">>, <<"gain">>, <<"cost">>, <<"bin">>>>

\* the raw hours of the rows the eligibility filter keeps, in dataset order
EligibleRawHours ==
    LET kept == KeptPositions([i \in 1..Len(df.index) |->
                    df.values[i][1] < 5 /\ df.values[i][2] = 0 /\ df.values[i][3] >= 2], 1)
    IN  [j \in 1..Len(kept) |-> df.values[kept[j]][4]]

\* C10: in every run that reaches the export, every row of train, valid and
\* test has a cost <= -2 (the raw cost, which passed cost >= 2, negated) and
\* an hour value in {0, 1} (the treatment of its raw hour), and both splits
\* are stratified on that treatment: of each treatment class, train holds
\* its share of the train size rounded down or up, valid and test half of
\* the other rows rounded down or up.
C10_ExportedRows ==
    pc \in {"export", "done"} =>
        LET hours == EligibleRawHours
            m2 == ConventionalMedian2(hours)
            n == Len(hours)
            n_train == n - CeilDiv(2 * n, 5)
            at_cost == CHOOSE k \in 1..Len(parts[1].columns) : parts[1].columns[k] = <<"cost">>
            at_hour == CHOOSE k \in 1..Len(parts[1].columns) : parts[1].columns[k] = <<"hour">>
            raw(l) == df.values[CHOOSE i \in 1..Len(df.index) : df.index[i] = l]
        IN  /\ \A p \in 1..3 :
                   /\ parts[p].columns = parts[1].columns
                   /\ \A j \in 1..Len(parts[p].index) :
                          LET cost == parts[p].values[j][at_cost]
                              hour == parts[p].values[j][at_hour]
                              was == raw(parts[p].index[j])
                          IN  /\ cost <= -2
                              /\ cost = -was[3]
                              /\ hour \in {0, 1}
                              /\ hour = 1 <=> 2 * was[4] > m2
            /\ \A t \in {0, 1} :
                   LET N_t == Cardinality({j \in 1..n : (IF 2 * hours[j] > m2 THEN 1 ELSE 0) = t})
                       in(p) == Cardinality({j \in 1..Len(parts[p].index) :
                                    parts[p].values[j][at_hour] = t})
                   IN  /\ Len(parts[1].index) = n_train
                       /\ in(1) * n > N_t * n_train - n
                       /\ in(1) * n < N_t * n_train + n
                       /\ in(1) + in(2) + in(3) = N_t
                       /\ Abs(2 * in(2) - (N_t - in(1))) <= 1
                       /\ Abs(2 * in(3) - (N_t - in(1))) <= 1

\* an exported run with three distinct raw hour values, on which a split
\* stratified on the raw hours fails, with both treatment classes in each
\* part and train shuffled
C10_Witness ==
    /\ pc = "export"
    /\ EligibleRawHours = <<10, 10, 10, 20, 30, 30, 30, 30>>
    /\ \A p \in 1..3 : Range(Column(parts[p], <<"hour">>)) = {0, 1}
    /\ parts[1].index = <<7, 1, 3, 5>>
    /\ \A r \in split(MakeFrame(<<<<"hour">>>>,
                          [j \in 1..Len(EligibleRawHours) |-> <<EligibleRawHours[j]>>]),
                      <<"hour">>) : r.err = "ValueError"

\* an exported run from which the filter has removed rows
C10_WitnessFiltered ==
    /\ pc = "done"
    /\ Len(df.index) > Len(EligibleRawHours)
    /\ Len(parts[1].index) + Len(parts[2].index) + Len(parts[3].index)
           = Len(EligibleRawHours)

====
